---- MODULE Spec2Model ----
(***************************************************************************)
(* Model of udsonip: DoIPUDSConnection (connection.py), the multi-ECU      *)
(* manager DoIPMultiECUClient (multi_ecu.py) and the address setter of     *)
(* DoIPUDSClient (client.py).                                              *)
(*                                                                         *)
(* Python objects live in heaps: a heap is a sequence, an object's         *)
(* identity is its index, constructing an object appends <<object>> to     *)
(* the heap.  An object the manager no longer references (a connection or *)
(* client dropped from the caches, a transport replaced in _doip) is       *)
(* garbage and its slot becomes <<>>: Spec follows a caller that does not  *)
(* keep a session after the manager dropped it.  An Optional[int] is <<>>  *)
(* (None) or <<a>>.                                                        *)
(***************************************************************************)
EXTENDS Integers, Sequences, FiniteSets, TLC

\* ------------------------------------------------------------------ bounds
\* DoIPClient objects constructed in one behaviour
MaxDoips == 2
\* DoIPUDSConnection objects the manager constructs in one behaviour
MaxConns == 2
\* stand-alone DoIPUDSConnection objects the caller constructs
MaxStandalone == 2
\* sessions the caller keeps after the manager dropped them from its cache
MaxHeld == 1

\* ------------------------------------------------------------------ inputs
Names == {"engine", "transmission"}
\* logical addresses handed to add_ecu and to the connection constructor
RegAddrs == {0, 224, 225}
\* values assigned to target_address: in and out of the 16-bit range
SetAddrs == {0 - 1, 0, 65535, 65536}
\* UDS payloads, opaque byte strings
Payloads == {<<16, 1>>, <<62>>}
\* the one payload used where the payload does not matter
HeldPayloads == {<<62>>}
\* _ecu_logical_address of a transport handed to a stand-alone connection
DefaultAddrs == {224}
\* gateway_address = 0x0001
GatewayAddress == 1

VARIABLES
    ecus,         \* DoIPMultiECUClient._ecus: name -> logical address
    connections,  \* DoIPMultiECUClient._connections: name -> connection id
    clients,      \* DoIPMultiECUClient._clients: name -> UDS client id
    doipRef,      \* DoIPMultiECUClient._doip: transport id, 0 for None
    connected,    \* DoIPMultiECUClient._connected
    doips,        \* heap of DoIPClient objects (the transport, as a recording double)
    conns,        \* heap of DoIPUDSConnection objects
    udsClients,   \* heap of UDSClient objects
    op,           \* the call made last
    ret,          \* its outcome: a value or the exception raised
    clock,        \* time.time(), in ticks of half a second
    disc,         \* discover_ecus: where the run is and its local variables
    net,          \* DoIPClient's class-level calls made by the discovery run
    threads,      \* the threads calling _get_client: where each is, its locals
    doipUdsClients \* heap of DoIPUDSClient objects (single-endpoint clients)

vars == <<ecus, connections, clients, doipRef, connected, doips, conns, udsClients, op, ret,
          clock, disc, net, threads, doipUdsClients>>
managerVars == <<ecus, connections, clients, doipRef, connected>>
discVars == <<clock, disc, net>>
progVars == <<managerVars, doips, conns, udsClients, threads, doipUdsClients>>

\* no discovery run was started
NoRun == [pc |-> "idle", start |-> 0, timeout |-> 0, discovered |-> <<>>, seen |-> {}]
\* no class-level call was made
NoCalls == [received |-> <<>>, waits |-> 0, broadcasts |-> 0, waitAt |-> 0, slice |-> 0]
DiscIdle == clock = 0 /\ disc = NoRun /\ net = NoCalls

\* the threads that may call into one manager
Threads == {1, 2}
\* a thread that is not inside a call
IdleThread == [pc |-> "idle", name |-> "", result |-> 0]
\* no thread is inside a call and no single-endpoint client was built
Quiet == threads = [t \in Threads |-> IdleThread] /\ doipUdsClients = <<>>
\* what the operations of one caller on the manager or on a connection leave alone
restVars == <<clock, disc, net, threads, doipUdsClients>>

\* ------------------------------------------------------------- bookkeeping
EmptyMap == [n \in {} |-> 0]
MapPut(f, k, v) == [n \in (DOMAIN f) \cup {k} |-> IF n = k THEN v ELSE f[n]]
MapDel(f, k) == [n \in (DOMAIN f) \ {k} |-> f[n]]

\* heaps: New constructs, Free collects the objects with ids in S
New(heap, obj) == Append(heap, <<obj>>)
Free(heap, S) == [i \in 1..Len(heap) |-> IF i \in S THEN <<>> ELSE heap[i]]
Live(heap) == {i \in 1..Len(heap) : heap[i] # <<>>}
Put(heap, i, obj) == [heap EXCEPT ![i] = <<obj>>]

Op(kind, name, id, arg, payload) ==
    [kind |-> kind, name |-> name, id |-> id, arg |-> arg, payload |-> payload,
     fails |-> {}, fault |-> "ok"]
Returned(val) == [kind |-> "ok", val |-> val, ctx |-> "", data |-> <<>>]
Raised(kind) == [kind |-> kind, val |-> 0, ctx |-> "", data |-> <<>>]

\* ------------------------------------------------- external: the transport
\* DoIPClient(...): a transport object, not yet connected
DoIPClient(addr) ==
    [ecu_logical_address |-> addr, live |-> FALSE, connects |-> 0,
     disconnects |-> 0, sent |-> <<>>]
\* DoIPClient.connect(): succeeds (ok) or raises
DoIPConnect(d, ok) == [d EXCEPT !.connects = @ + 1, !.live = ok]
\* DoIPClient.disconnect(): succeeds (ok) or raises
DoIPDisconnect(d, ok) ==
    [d EXCEPT !.disconnects = @ + 1, !.live = IF ok THEN FALSE ELSE @]
\* DoIPClient.send_diagnostic_to_address(address, payload): records the call
send_diagnostic_to_address(d, address, payload) ==
    [d EXCEPT !.sent = <<[target |-> address, payload |-> payload]>>]

\* ------------------------------------------------------- DoIPUDSConnection
\* Python's `a or b` on an Optional[int]: None and 0 are falsy
PyOr(opt, default) == IF opt # <<>> /\ opt[1] # 0 THEN opt[1] ELSE default

\* DoIPUDSConnection.__init__(doip_client, target_address=None)
\* (heap is the transport heap the object d lives in)
DoIPUDSConnection(heap, d, targetOpt) ==
    [doip |-> d,
     target |-> PyOr(targetOpt, heap[d][1].ecu_logical_address),
     opened |-> FALSE]

\* close() as a mutant would write it: no `if self._opened` guard, the flag
\* is flipped
ConnClosedToggling(c) == [c EXCEPT !.opened = ~@]

\* DoIPUDSConnection.open() / close() on the object
ConnOpened(c) == IF ~c.opened THEN [c EXCEPT !.opened = TRUE] ELSE c
ConnClosed(c) == IF c.opened THEN [c EXCEPT !.opened = FALSE] ELSE c

\* target_address setter as a mutant would write it: keeps the old target
TargetSetterIgnoring(c, value) == [conn |-> c, exc |-> "ok"]
\* target_address.setter: stores the value, whatever it is; never raises
TargetSetter(c, value) == [conn |-> [c EXCEPT !.target = value], exc |-> "ok"]

\* the address specific_send tags the payload with, as a mutant would:
\* the transport's own address instead of the connection's target
SendAddressOfTransport(c) == doips[conns[c][1].doip][1].ecu_logical_address
\* the address specific_send tags the payload with
SendAddress(c) == conns[c][1].target

\* action: conn = DoIPUDSConnection(doip, target_address)
new_connection(d, targetOpt) ==
    /\ Len(conns) < MaxStandalone
    /\ conns' = New(conns, DoIPUDSConnection(doips, d, targetOpt))
    /\ op' = Op("new_connection", "", Len(conns) + 1,
                IF targetOpt = <<>> THEN 0 ELSE targetOpt[1], targetOpt)
    /\ ret' = Returned(Len(conns) + 1)
    /\ UNCHANGED <<managerVars, doips, udsClients>>
    /\ UNCHANGED restVars

\* action: conn.target_address = value
set_target(c, value) ==
    LET r == TargetSetter(conns[c][1], value) IN
    /\ conns' = Put(conns, c, r.conn)
    /\ op' = Op("set_target", "", c, value, <<>>)
    /\ ret' = IF r.exc = "ok" THEN Returned(0) ELSE Raised(r.exc)
    /\ UNCHANGED <<managerVars, doips, udsClients>>
    /\ UNCHANGED restVars

\* the connection a DoIPUDSClient owns (self._connection): the first one built
ClientConnection == 1

\* action: DoIPUDSClient.target_address = value: any exception of the
\* connection's setter is re-raised as AddressSwitchError
client_set_target(value) ==
    LET c == ClientConnection
        r == TargetSetter(conns[c][1], value) IN
    /\ c \in Live(conns)
    /\ conns' = Put(conns, c, r.conn)
    /\ op' = Op("client_set_target", "", c, value, <<>>)
    /\ ret' = IF r.exc = "ok" THEN Returned(0) ELSE Raised("AddressSwitchError")
    /\ UNCHANGED <<managerVars, doips, udsClients>>
    /\ UNCHANGED restVars

\* action: conn.open()
connection_open(c) ==
    /\ conns' = Put(conns, c, ConnOpened(conns[c][1]))
    /\ op' = Op("connection_open", "", c, 0, <<>>)
    /\ ret' = Returned(0)
    /\ UNCHANGED <<managerVars, doips, udsClients>>
    /\ UNCHANGED restVars

\* DoIPUDSConnection.is_open()
is_open(c) == conns[c][1].opened

\* conn.close() as a mutant would write it: it also disconnects the transport
connection_close_disconnecting(c) ==
    LET d == conns[c][1].doip IN
    /\ conns' = Put(conns, c, ConnClosed(conns[c][1]))
    /\ doips' = Put(doips, d, DoIPDisconnect(doips[d][1], TRUE))
    /\ op' = Op("connection_close", "", c, 0, <<>>)
    /\ ret' = Returned(0)
    /\ UNCHANGED <<managerVars, udsClients>>
    /\ UNCHANGED restVars

\* action: conn.close()
connection_close(c) ==
    /\ conns' = Put(conns, c, ConnClosed(conns[c][1]))
    /\ op' = Op("connection_close", "", c, 0, <<>>)
    /\ ret' = Returned(0)
    /\ UNCHANGED <<managerVars, doips, udsClients>>
    /\ UNCHANGED restVars

\* action: conn.specific_send(payload)
specific_send(c, payload) ==
    LET d == conns[c][1].doip IN
    /\ doips' = Put(doips, d,
                    send_diagnostic_to_address(doips[d][1], SendAddress(c), payload))
    /\ op' = Op("specific_send", "", c, 0, payload)
    /\ ret' = Returned(0)
    /\ UNCHANGED <<managerVars, conns, udsClients>>
    /\ UNCHANGED restVars

\* what DoIPClient.receive_diagnostic(timeout) does: returns the reply's
\* bytes, returns None, raises TimeoutError when no reply came in time, or
\* raises another fault
ReceiveOutcomes ==
    {[kind |-> "reply", data |-> <<80, 1>>], [kind |-> "None", data |-> <<>>],
     [kind |-> "TimeoutError", data |-> <<>>], [kind |-> "OSError", data |-> <<>>]}

\* specific_wait_frame as a mutant would write it: `except Exception:
\* return None`
WaitFrameSwallowing(outcome) ==
    IF outcome.kind = "reply" /\ outcome.data # <<>>
    THEN [Returned(0) EXCEPT !.data = outcome.data]
    ELSE [Returned(0) EXCEPT !.kind = "None"]

\* the body of specific_wait_frame on the outcome of receive_diagnostic:
\* a truthy response is returned as bytes(response), a falsy one as None,
\* an exception is logged and re-raised as it is
WaitFrame(outcome) ==
    IF outcome.kind \in {"reply", "None"}
    THEN IF outcome.kind = "reply" /\ outcome.data # <<>>
         THEN [Returned(0) EXCEPT !.data = outcome.data]
         ELSE [Returned(0) EXCEPT !.kind = "None"]
    ELSE Raised(outcome.kind)

\* action: conn.specific_wait_frame(timeout); ret.kind "ok" with the bytes
\* in ret.data, "None" for the None result, or the exception raised
specific_wait_frame(c, outcome) ==
    /\ op' = [Op("specific_wait_frame", "", c, 0, outcome.data)
                EXCEPT !.fault = outcome.kind]
    /\ ret' = WaitFrame(outcome)
    /\ UNCHANGED <<managerVars, doips, conns, udsClients>>
    /\ UNCHANGED restVars

ConnIds == Live(conns)

\* ------------------------------------------------------------ stand-alone
\* connections built by the caller on one transport it already connected
InitConn ==
    /\ ecus = EmptyMap
    /\ connections = EmptyMap
    /\ clients = EmptyMap
    /\ doipRef = 0
    /\ connected = FALSE
    /\ \E a \in DefaultAddrs : doips = New(<<>>, DoIPConnect(DoIPClient(a), TRUE))
    /\ conns = <<>>
    /\ udsClients = <<>>
    /\ op = Op("init", "", 0, 0, <<>>)
    /\ ret = Returned(0)
    /\ DiscIdle
    /\ Quiet

NextConn ==
    \/ \E t \in {<<>>, <<0>>, <<225>>} : new_connection(1, t)
    \/ \E c \in ConnIds, a \in SetAddrs : set_target(c, a)
    \/ \E a \in SetAddrs : client_set_target(a)
    \/ \E c \in ConnIds : connection_open(c)
    \/ \E c \in ConnIds : connection_close(c)
    \/ \E c \in ConnIds, p \in Payloads : specific_send(c, p)

SpecConn == InitConn /\ [][NextConn]_vars

\* stand-alone connections used for receiving
NextRecv ==
    \/ \E t \in {<<>>, <<225>>} : new_connection(1, t)
    \/ \E c \in ConnIds : set_target(c, 65535)
    \/ \E c \in ConnIds : connection_open(c)
    \/ \E c \in ConnIds : connection_close(c)
    \/ \E c \in ConnIds, p \in HeldPayloads : specific_send(c, p)
    \/ \E c \in ConnIds, o \in ReceiveOutcomes : specific_wait_frame(c, o)

SpecRecv == InitConn /\ [][NextRecv]_vars

\* ------------------------------------------------------ DoIPMultiECUClient
\* the manager at construction, as a mutant would write it: the transport is
\* created eagerly instead of on first use
InitEager ==
    /\ ecus = EmptyMap
    /\ connections = EmptyMap
    /\ clients = EmptyMap
    /\ doipRef = 1
    /\ connected = FALSE
    /\ doips = New(<<>>, DoIPClient(GatewayAddress))
    /\ conns = <<>>
    /\ udsClients = <<>>
    /\ op = Op("init", "", 0, 0, <<>>)
    /\ ret = Returned(0)
    /\ DiscIdle
    /\ Quiet

\* DoIPMultiECUClient.__init__: empty registry and caches, no transport
Init ==
    /\ ecus = EmptyMap
    /\ connections = EmptyMap
    /\ clients = EmptyMap
    /\ doipRef = 0
    /\ connected = FALSE
    /\ doips = <<>>
    /\ conns = <<>>
    /\ udsClients = <<>>
    /\ op = Op("init", "", 0, 0, <<>>)
    /\ ret = Returned(0)
    /\ DiscIdle
    /\ Quiet

\* action: manager.add_ecu(name, logical_address)
add_ecu(name, logical_address) ==
    /\ ecus' = MapPut(ecus, name, logical_address)
    /\ op' = Op("add_ecu", name, 0, logical_address, <<>>)
    /\ ret' = Returned(0)
    /\ UNCHANGED <<connections, clients, doipRef, connected, doips, conns, udsClients>>
    /\ UNCHANGED restVars

\* the objects cached under a set of names
CachedConns(S) == {connections[n] : n \in S \cap DOMAIN connections}
CachedClients(S) == {clients[n] : n \in S \cap DOMAIN clients}

\* remove_ecu as a mutant would write it: the caches keep the entry
remove_ecu_keeping_cache(name, keep) ==
    /\ keep \subseteq CachedConns({name})
    /\ Cardinality((Live(conns) \ CachedConns(Names)) \cup keep) <= MaxHeld
    /\ ecus' = IF name \in DOMAIN ecus THEN MapDel(ecus, name) ELSE ecus
    /\ op' = Op("remove_ecu", name, 0, 0, <<>>)
    /\ ret' = Returned(0)
    /\ UNCHANGED <<connections, clients, doipRef, connected, doips, conns, udsClients>>
    /\ UNCHANGED restVars

\* action: manager.remove_ecu(name); keep is the cached connection of name
\* when the caller still holds the session it was given, nothing otherwise
remove_ecu(name, keep) ==
    /\ keep \subseteq CachedConns({name})
    /\ Cardinality((Live(conns) \ CachedConns(Names)) \cup keep) <= MaxHeld
    /\ IF name \in DOMAIN ecus
       THEN /\ ecus' = MapDel(ecus, name)
            /\ connections' = IF name \in DOMAIN connections
                              THEN MapDel(connections, name) ELSE connections
            /\ clients' = IF name \in DOMAIN clients
                          THEN MapDel(clients, name) ELSE clients
            /\ conns' = Free(conns, CachedConns({name}) \ keep)
            /\ udsClients' = Free(udsClients,
                    {u \in CachedClients({name}) : udsClients[u][1].conn \notin keep})
       ELSE UNCHANGED <<ecus, connections, clients, conns, udsClients>>
    /\ op' = Op("remove_ecu", name, 0, 0, <<>>)
    /\ ret' = Returned(0)
    /\ UNCHANGED <<doipRef, connected, doips>>
    /\ UNCHANGED restVars

\* action: manager.list_ecus()
list_ecus ==
    /\ op' = Op("list_ecus", "", 0, 0, <<>>)
    /\ ret' = Returned(0)
    /\ UNCHANGED <<managerVars, doips, conns, udsClients>>
    /\ UNCHANGED restVars

\* the transports some connection object still refers to (_doip)
ReferencedDoips == {conns[c][1].doip : c \in Live(conns)}

\* _ensure_connected as a mutant would write it: no `if not self._connected`
ensure_connected_unguarded(ok) ==
    LET ds == New(doips, DoIPConnect(DoIPClient(GatewayAddress), ok)) IN
    [doips |-> ds, doipRef |-> Len(ds),
     connected |-> IF ok THEN TRUE ELSE connected,
     exc |-> IF ok THEN "ok" ELSE "ConnectionError"]

\* _ensure_connected as a mutant would write it: the flag set before connect()
ensure_connected_flag_first(ok) ==
    IF ~connected
    THEN LET ds == New(Free(doips, {doipRef} \ ReferencedDoips), DoIPConnect(DoIPClient(GatewayAddress), ok)) IN
         [doips |-> ds, doipRef |-> Len(ds), connected |-> TRUE,
          exc |-> IF ok THEN "ok" ELSE "ConnectionError"]
    ELSE [doips |-> doips, doipRef |-> doipRef, connected |-> connected, exc |-> "ok"]

\* _ensure_connected(): the manager's transport fields after the call and
\* the exception it raises; ok is whether DoIPClient.connect() succeeds
ensure_connected(ok) ==
    IF ~connected
    THEN LET ds == New(Free(doips, {doipRef} \ ReferencedDoips), DoIPConnect(DoIPClient(GatewayAddress), ok)) IN
         [doips |-> ds, doipRef |-> Len(ds),
          connected |-> IF ok THEN TRUE ELSE connected,
          exc |-> IF ok THEN "ok" ELSE "ConnectionError"]
    ELSE [doips |-> doips, doipRef |-> doipRef, connected |-> connected, exc |-> "ok"]

\* the state a call leaves behind when it changes nothing
Same(r) ==
    [ecus |-> ecus, connections |-> connections, clients |-> clients,
     doipRef |-> doipRef, connected |-> connected, doips |-> doips,
     conns |-> conns, udsClients |-> udsClients, ret |-> r]

\* the part of _get_client after the checks as a mutant would write it:
\* connection.open() is left out
CreateClientUnopened(name, logical_address, ok) ==
    LET e == ensure_connected(ok) IN
    IF e.exc # "ok"
    THEN [Same(Raised(e.exc)) EXCEPT
            !.doips = e.doips, !.doipRef = e.doipRef, !.connected = e.connected]
    ELSE LET connection == DoIPUDSConnection(e.doips, e.doipRef, <<logical_address>>)
             cs == New(conns, connection)
             us == New(udsClients, [conn |-> Len(cs)])
         IN [ecus |-> ecus,
             connections |-> MapPut(connections, name, Len(cs)),
             clients |-> MapPut(clients, name, Len(us)),
             doipRef |-> e.doipRef, connected |-> e.connected, doips |-> e.doips,
             conns |-> cs, udsClients |-> us, ret |-> Returned(Len(us))]

\* the part of _get_client after the registry and cache checks
CreateClient(name, logical_address, ok) ==
    LET e == ensure_connected(ok) IN
    IF e.exc # "ok"
    THEN [Same(Raised(e.exc)) EXCEPT
            !.doips = e.doips, !.doipRef = e.doipRef, !.connected = e.connected]
    ELSE LET connection == ConnOpened(DoIPUDSConnection(e.doips, e.doipRef, <<logical_address>>))
             cs == New(conns, connection)
             us == New(udsClients, [conn |-> Len(cs)])
         IN [ecus |-> ecus,
             connections |-> MapPut(connections, name, Len(cs)),
             clients |-> MapPut(clients, name, Len(us)),
             doipRef |-> e.doipRef, connected |-> e.connected, doips |-> e.doips,
             conns |-> cs, udsClients |-> us, ret |-> Returned(Len(us))]

\* _get_client as a mutant would write it: an unknown name gets the gateway
get_client_unchecked(name, ok) ==
    IF name \in DOMAIN clients
    THEN Same(Returned(clients[name]))
    ELSE CreateClient(name, IF name \in DOMAIN ecus THEN ecus[name] ELSE GatewayAddress, ok)

\* _get_client as a mutant would write it: the cache is never consulted
get_client_uncached(name, ok) ==
    IF name \notin DOMAIN ecus
    THEN Same(Raised("ECUNotFoundError"))
    ELSE CreateClient(name, ecus[name], ok)

\* _get_client as a mutant would write it: _ensure_connected() comes before
\* the registry check
get_client_connect_first(name, ok) ==
    LET e == ensure_connected(ok) IN
    IF e.exc # "ok"
    THEN [Same(Raised(e.exc)) EXCEPT
            !.doips = e.doips, !.doipRef = e.doipRef, !.connected = e.connected]
    ELSE IF name \notin DOMAIN ecus
    THEN [Same(Raised("ECUNotFoundError")) EXCEPT
            !.doips = e.doips, !.doipRef = e.doipRef, !.connected = e.connected]
    ELSE IF name \in DOMAIN clients
    THEN Same(Returned(clients[name]))
    ELSE CreateClient(name, ecus[name], ok)

\* _get_client(name): the state after the call and its outcome
get_client(name, ok) ==
    IF name \notin DOMAIN ecus
    THEN Same(Raised("ECUNotFoundError"))
    ELSE IF name \in DOMAIN clients
    THEN Same(Returned(clients[name]))
    ELSE CreateClient(name, ecus[name], ok)

\* whether a call made now reaches DoIPClient.connect()
ReachesConnect(name) == name \in DOMAIN ecus /\ name \notin DOMAIN clients /\ ~connected

\* the state r becomes the next state; r stays within the model's bounds
Becomes(r) ==
    /\ Len(r.doips) <= MaxDoips
    /\ Len(r.conns) <= MaxConns
    /\ ecus' = r.ecus
    /\ connections' = r.connections
    /\ clients' = r.clients
    /\ doipRef' = r.doipRef
    /\ connected' = r.connected
    /\ doips' = r.doips
    /\ conns' = r.conns
    /\ udsClients' = r.udsClients

Flag(b) == IF b THEN 1 ELSE 0

\* action: manager.switch_to(name)
switch_to(name, ok) ==
    LET r == get_client(name, ok) IN
    /\ ReachesConnect(name) \/ ok
    /\ Becomes(r)
    /\ op' = Op("switch_to", name, 0, Flag(ok), <<>>)
    /\ ret' = r.ret
    /\ UNCHANGED restVars

\* what the body of a `with manager.ecu(name)` block does: returns, or
\* raises an exception of one of these classes
BodyFaults == {"ok", "ValueError", "UnicodeDecodeError"}

\* the exception classes whose constructor accepts one message string;
\* UnicodeDecodeError(encoding, object, start, end, reason) does not
TakesMessage == {"ValueError"}

\* `raise type(e)(f"Error communicating with ECU '{name}': {e}") from e`:
\* the class of e is called with the message as its only argument; when the
\* class does not take that, the call itself raises TypeError and that is
\* what leaves the block, without the ECU name
Reraise(kind, name, client) ==
    IF kind \in TakesMessage
    THEN [kind |-> kind, val |-> client, ctx |-> name, data |-> <<>>]
    ELSE [kind |-> "TypeError", val |-> client, ctx |-> "", data |-> <<>>]

\* ecu() as a mutant would write it: a finally clause closes the session's
\* connection when the block is left
ecu_closing_on_exit(name, ok, bodyExc) ==
    LET r == get_client(name, ok) IN
    /\ ReachesConnect(name) \/ ok
    /\ r.ret.kind = "ok" \/ bodyExc = "ok"
    /\ Becomes([r EXCEPT !.conns =
                   IF r.ret.kind = "ok"
                   THEN Put(r.conns, r.connections[name],
                            ConnClosed(r.conns[r.connections[name]][1]))
                   ELSE r.conns])
    /\ op' = [Op("ecu", name, 0, Flag(ok), <<>>) EXCEPT !.fault = bodyExc]
    /\ ret' = IF r.ret.kind = "ok" /\ bodyExc # "ok"
              THEN Reraise(bodyExc, name, r.ret.val)
              ELSE r.ret
    /\ UNCHANGED restVars

\* action: with manager.ecu(name) as ecu: <body>; the body returns
\* (bodyExc = "ok") or raises an exception of kind bodyExc, which the
\* except clause re-raises. ret.val is the client the block was given.
ecu(name, ok, bodyExc) ==
    LET r == get_client(name, ok) IN
    /\ ReachesConnect(name) \/ ok
    /\ r.ret.kind = "ok" \/ bodyExc = "ok"
    /\ Becomes(r)
    /\ op' = [Op("ecu", name, 0, Flag(ok), <<>>) EXCEPT !.fault = bodyExc]
    /\ ret' = IF r.ret.kind = "ok" /\ bodyExc # "ok"
              THEN Reraise(bodyExc, name, r.ret.val)
              ELSE r.ret
    /\ UNCHANGED restVars

\* action: manager.__enter__()
enter(ok) ==
    LET e == ensure_connected(ok) IN
    /\ ~connected \/ ok
    /\ Len(e.doips) <= MaxDoips
    /\ doips' = e.doips
    /\ doipRef' = e.doipRef
    /\ connected' = e.connected
    /\ op' = Op("enter", "", 0, Flag(ok), <<>>)
    /\ ret' = IF e.exc = "ok" THEN Returned(0) ELSE Raised(e.exc)
    /\ UNCHANGED <<ecus, connections, clients, conns, udsClients>>
    /\ UNCHANGED restVars

\* the sessions the caller holds although the manager dropped them
Stale == Live(conns) \ CachedConns(Names)

\* the loop over the cached connections as a mutant would write it: one
\* try around the whole loop, so the first close() that raises ends it (at
\* worst before any other connection was closed)
CloseCachedStopAtFault(fails) ==
    [i \in 1..Len(conns) |->
        IF i \in CachedConns(Names) /\ fails = {}
        THEN <<ConnClosed(conns[i][1])>> ELSE conns[i]]

\* the connection heap after `for connection in self._connections.values():
\* try: connection.close() except: pass`; the close() of a connection in
\* fails raises on entry and leaves the connection as it was
CloseCached(fails) ==
    [i \in 1..Len(conns) |->
        IF i \in CachedConns(Names) \ fails THEN <<ConnClosed(conns[i][1])>> ELSE conns[i]]

\* what dropping the caches leaves of a heap: the cached objects the caller
\* does not keep are collected
DropConns(heap, keep) == Free(heap, CachedConns(Names) \ keep)
DropClients(keep) ==
    Free(udsClients, {u \in CachedClients(Names) : udsClients[u][1].conn \notin keep})

\* the environment of one close(): dok is whether DoIPClient.disconnect()
\* succeeds, fails the cached connections whose close() raises, keep the
\* cached connections whose session the caller still holds afterwards
CloseEnv(dok, fails, keep) ==
    /\ (doipRef # 0 /\ connected) \/ dok
    /\ fails \subseteq CachedConns(Names)
    /\ keep \subseteq CachedConns(Names)
    /\ Cardinality(Stale \cup keep) <= MaxHeld

\* close() as a mutant would write it: the caches are not cleared
close_leaving_cache(dok, fails, keep) ==
    /\ CloseEnv(dok, fails, keep)
    /\ conns' = CloseCached(fails)
    /\ IF doipRef # 0 /\ connected
       THEN /\ doips' = Put(doips, doipRef, DoIPDisconnect(doips[doipRef][1], dok))
            /\ connected' = FALSE
       ELSE UNCHANGED <<doips, connected>>
    /\ op' = [Op("close", "", 0, Flag(dok), <<>>) EXCEPT !.fails = fails]
    /\ ret' = Returned(0)
    /\ UNCHANGED <<ecus, doipRef, connections, clients, udsClients>>
    /\ UNCHANGED restVars

\* close() as a mutant would write it: `self._connected = False` inside the
\* try, after disconnect()
close_flag_in_try(dok, fails, keep) ==
    /\ CloseEnv(dok, fails, keep)
    /\ conns' = DropConns(CloseCached(fails), keep)
    /\ udsClients' = DropClients(keep)
    /\ IF doipRef # 0 /\ connected
       THEN /\ doips' = Put(doips, doipRef, DoIPDisconnect(doips[doipRef][1], dok))
            /\ connected' = ~dok
       ELSE UNCHANGED <<doips, connected>>
    /\ connections' = EmptyMap
    /\ clients' = EmptyMap
    /\ op' = [Op("close", "", 0, Flag(dok), <<>>) EXCEPT !.fails = fails]
    /\ ret' = Returned(0)
    /\ UNCHANGED <<ecus, doipRef>>
    /\ UNCHANGED restVars

\* close() as a mutant would write it: `if self._doip:` without the flag
close_disconnect_unguarded(dok, fails, keep) ==
    /\ CloseEnv(dok, fails, keep)
    /\ conns' = DropConns(CloseCached(fails), keep)
    /\ udsClients' = DropClients(keep)
    /\ IF doipRef # 0
       THEN /\ doips' = Put(doips, doipRef, DoIPDisconnect(doips[doipRef][1], dok))
            /\ connected' = FALSE
       ELSE UNCHANGED <<doips, connected>>
    /\ connections' = EmptyMap
    /\ clients' = EmptyMap
    /\ op' = [Op("close", "", 0, Flag(dok), <<>>) EXCEPT !.fails = fails]
    /\ ret' = Returned(0)
    /\ UNCHANGED <<ecus, doipRef>>
    /\ UNCHANGED restVars

\* action: manager.close()
close(dok, fails, keep) ==
    /\ CloseEnv(dok, fails, keep)
    /\ conns' = DropConns(CloseCached(fails), keep)
    /\ udsClients' = DropClients(keep)
    /\ IF doipRef # 0 /\ connected
       THEN /\ doips' = Put(doips, doipRef, DoIPDisconnect(doips[doipRef][1], dok))
            /\ connected' = FALSE
       ELSE UNCHANGED <<doips, connected>>
    /\ connections' = EmptyMap
    /\ clients' = EmptyMap
    /\ op' = [Op("close", "", 0, Flag(dok), <<>>) EXCEPT !.fails = fails]
    /\ ret' = Returned(0)
    /\ UNCHANGED <<ecus, doipRef>>
    /\ UNCHANGED restVars

Next ==
    \/ \E n \in Names, a \in RegAddrs : add_ecu(n, a)
    \/ \E n \in Names : remove_ecu(n, {})
    \/ list_ecus
    \/ \E n \in Names, ok \in BOOLEAN : switch_to(n, ok)
    \/ \E n \in Names, ok \in BOOLEAN, x \in BodyFaults : ecu(n, ok, x)
    \/ \E ok \in BOOLEAN : enter(ok)
    \/ \E dok \in BOOLEAN, fails \in SUBSET ConnIds : close(dok, fails, {})
    \/ \E c \in ConnIds, p \in Payloads : specific_send(c, p)

Spec == Init /\ [][Next]_vars

\* ------------------------------------------------- sessions the caller kept
\* logical addresses registered when following kept sessions
HeldAddrs == {224}

\* The manager with a caller that may keep a session across close() and use
\* it afterwards, and with cached connections whose close() may raise.
NextHeld ==
    \/ \E n \in Names, a \in HeldAddrs : add_ecu(n, a)
    \/ \E n \in Names, keep \in SUBSET ConnIds : remove_ecu(n, keep)
    \/ \E n \in Names, ok \in BOOLEAN : switch_to(n, ok)
    \/ \E ok \in BOOLEAN : enter(ok)
    \/ \E dok \in BOOLEAN, fails \in SUBSET ConnIds, keep \in SUBSET ConnIds :
            close(dok, fails, keep)
    \/ \E c \in ConnIds, p \in HeldPayloads : specific_send(c, p)

SpecHeld == Init /\ [][NextHeld]_vars

\* ------------------------------------------------- the manager as a block
\* logical addresses registered when following `with manager:` blocks
ScopeAddrs == {224, 225}

\* what manager.close() does to the manager and the heaps
Teardown(dok, fails) ==
    /\ CloseEnv(dok, fails, {})
    /\ conns' = DropConns(CloseCached(fails), {})
    /\ udsClients' = DropClients({})
    /\ IF doipRef # 0 /\ connected
       THEN /\ doips' = Put(doips, doipRef, DoIPDisconnect(doips[doipRef][1], dok))
            /\ connected' = FALSE
       ELSE UNCHANGED <<doips, connected>>
    /\ connections' = EmptyMap
    /\ clients' = EmptyMap
    /\ UNCHANGED <<ecus, doipRef>>

\* __exit__ as a mutant would write it: close() only when the block
\* completed
scope_exit_on_success(bodyExc, dok, fails) ==
    /\ IF bodyExc = "ok"
       THEN Teardown(dok, fails)
       ELSE CloseEnv(dok, fails, {}) /\ UNCHANGED <<managerVars, doips, conns, udsClients>>
    /\ op' = [Op("exit", "", 0, Flag(dok), <<>>) EXCEPT !.fails = fails, !.fault = bodyExc]
    /\ ret' = IF bodyExc = "ok" THEN Returned(0) ELSE Raised(bodyExc)
    /\ UNCHANGED restVars

\* action: leaving `with manager:`; the block completed (bodyExc = "ok") or
\* raised bodyExc. __exit__ calls close() and returns None, so the
\* exception of the block goes on to the caller.
scope_exit(bodyExc, dok, fails) ==
    /\ Teardown(dok, fails)
    /\ op' = [Op("exit", "", 0, Flag(dok), <<>>) EXCEPT !.fails = fails, !.fault = bodyExc]
    /\ ret' = IF bodyExc = "ok" THEN Returned(0) ELSE Raised(bodyExc)
    /\ UNCHANGED restVars

\* action: manager.__del__()
del(dok, fails) ==
    /\ Teardown(dok, fails)
    /\ op' = [Op("del", "", 0, Flag(dok), <<>>) EXCEPT !.fails = fails]
    /\ ret' = Returned(0)
    /\ UNCHANGED restVars

NextScope ==
    \/ \E n \in Names, a \in ScopeAddrs : add_ecu(n, a)
    \/ \E n \in Names : remove_ecu(n, {})
    \/ \E n \in Names, ok \in BOOLEAN : switch_to(n, ok)
    \/ \E n \in Names, ok \in BOOLEAN, x \in {"ok", "ValueError"} : ecu(n, ok, x)
    \/ \E ok \in BOOLEAN : enter(ok)
    \/ \E x \in {"ok", "ValueError"}, dok \in BOOLEAN, fails \in SUBSET ConnIds :
            scope_exit(x, dok, fails)
    \/ \E dok \in BOOLEAN, fails \in SUBSET ConnIds : del(dok, fails)

SpecScope == Init /\ [][NextScope]_vars

\* ------------------------------------------------------ concurrent callers
\* Two threads call manager.switch_to(name) on one manager. _get_client and
\* _ensure_connected take no lock, so the interpreter may switch threads
\* between any two statements; each action below is one thread running the
\* statements named in its comment. threads[t].name is the argument of the
\* call of thread t and threads[t].result the client its last call returned.

\* thread t moves to pc
At(t, pc) == [threads EXCEPT ![t].pc = pc]

\* action: thread t calls switch_to(name) and runs the two checks at the top
\* of _get_client: unknown name, cached client, or on to _ensure_connected()
race_check(t, name) ==
    /\ threads[t].pc = "idle"
    /\ IF name \notin DOMAIN ecus
       THEN /\ threads' = [threads EXCEPT ![t] = [pc |-> "idle", name |-> name, result |-> 0]]
            /\ ret' = Raised("ECUNotFoundError")
       ELSE IF name \in DOMAIN clients
       THEN /\ threads' = [threads EXCEPT ![t] =
                              [pc |-> "idle", name |-> name, result |-> clients[name]]]
            /\ ret' = Returned(clients[name])
       ELSE /\ threads' = [threads EXCEPT ![t] = [pc |-> "ensure", name |-> name, result |-> 0]]
            /\ ret' = ret
    /\ op' = Op("race_check", name, t, 0, <<>>)
    /\ UNCHANGED <<managerVars, doips, conns, udsClients, discVars, doipUdsClients>>

\* action: thread t evaluates `if not self._connected:`
race_test_connected(t) ==
    /\ threads[t].pc = "ensure"
    /\ threads' = At(t, IF connected THEN "build" ELSE "create")
    /\ op' = Op("race_test_connected", threads[t].name, t, 0, <<>>)
    /\ ret' = ret
    /\ UNCHANGED <<managerVars, doips, conns, udsClients, discVars, doipUdsClients>>

\* action: thread t runs `self._doip = DoIPClient(...)`
race_create_doip(t) ==
    /\ threads[t].pc = "create"
    /\ Len(doips) < MaxDoips
    /\ doips' = New(doips, DoIPClient(GatewayAddress))
    /\ doipRef' = Len(doips')
    /\ threads' = At(t, "connect")
    /\ op' = Op("race_create_doip", threads[t].name, t, 0, <<>>)
    /\ ret' = ret
    /\ UNCHANGED <<ecus, connections, clients, connected, conns, udsClients, discVars,
                   doipUdsClients>>

\* action: thread t runs `self._doip.connect()` on the object self._doip
\* refers to now, then `self._connected = True`, or raises ConnectionError
race_connect(t, ok) ==
    /\ threads[t].pc = "connect"
    /\ doips' = Put(doips, doipRef, DoIPConnect(doips[doipRef][1], ok))
    /\ connected' = IF ok THEN TRUE ELSE connected
    /\ threads' = At(t, IF ok THEN "build" ELSE "idle")
    /\ op' = Op("race_connect", threads[t].name, t, Flag(ok), <<>>)
    /\ ret' = IF ok THEN ret ELSE Raised("ConnectionError")
    /\ UNCHANGED <<ecus, connections, clients, doipRef, conns, udsClients, discVars,
                   doipUdsClients>>

\* action: thread t runs the rest of _get_client: builds the connection on
\* self._doip, opens it, builds the client, stores both and returns
race_build(t) ==
    LET name == threads[t].name
        cs == New(conns, ConnOpened(DoIPUDSConnection(doips, doipRef, <<ecus[name]>>)))
        us == New(udsClients, [conn |-> Len(cs)])
    IN
    /\ threads[t].pc = "build"
    /\ Len(conns) < MaxConns
    /\ conns' = cs
    /\ udsClients' = us
    /\ connections' = MapPut(connections, name, Len(cs))
    /\ clients' = MapPut(clients, name, Len(us))
    /\ threads' = [threads EXCEPT ![t] = [pc |-> "idle", name |-> name, result |-> Len(us)]]
    /\ op' = Op("race_build", name, t, 0, <<>>)
    /\ ret' = Returned(Len(us))
    /\ UNCHANGED <<ecus, doipRef, connected, doips, discVars, doipUdsClients>>

NextRace ==
    \/ \E n \in Names, a \in ScopeAddrs : add_ecu(n, a)
    \/ \E t \in Threads, n \in Names : race_check(t, n)
    \/ \E t \in Threads : race_test_connected(t)
    \/ \E t \in Threads : race_create_doip(t)
    \/ \E t \in Threads, ok \in BOOLEAN : race_connect(t, ok)
    \/ \E t \in Threads : race_build(t)

SpecRace == Init /\ [][NextRace]_vars

\* ---------------------------------------------------------------- discovery
\* the most announcements the network delivers to one run
MaxAnnouncements == 3
\* 1.0 second, the longest single wait, in ticks
SliceTicks == 2
\* discovery timeouts, in ticks (0 s, 0.5 s, 1.5 s)
Timeouts == {0, 1, 3}
\* time.time() when discover_ecus is called
StartClocks == {0, 7}
\* time that passes between two readings of the clock outside a wait
DelayTicks == {0, 1}
\* the (ip, logical_address) pairs of the entities on the network
Entities == {<<"10.0.0.5", 12289>>, <<"10.0.0.5", 8193>>, <<"10.0.0.9", 8193>>}
\* an announcement as await_vehicle_announcement returns it: the sender's
\* ip and the VehicleIdentificationResponse fields the code reads
Announcements ==
    {[ip |-> e[1], logical_address |-> e[2], eid |-> x, gid |-> x,
      further_action_code |-> 0] : e \in Entities, x \in {1, 2}}

\* ECUInfo(ip=ip, logical_address=..., eid=..., gid=..., further_action=...)
ECUInfo(ip, announcement) ==
    [ip |-> ip, logical_address |-> announcement.logical_address,
     eid |-> announcement.eid, gid |-> announcement.gid,
     further_action |-> announcement.further_action_code]

\* the de-duplication as a mutant would write it: `if ecu_info not in
\* discovered_ecus`, which compares every field
CollectByAllFields(discovered, seen, a) ==
    IF \A i \in 1..Len(discovered) : discovered[i] # ECUInfo(a.ip, a)
    THEN [discovered |-> Append(discovered, ECUInfo(a.ip, a)),
          seen |-> seen \cup {<<a.ip, a.logical_address>>}]
    ELSE [discovered |-> discovered, seen |-> seen]

\* the de-duplication as a mutant would write it: a later announcement of a
\* pair already seen replaces the descriptor kept for it
CollectLastWins(discovered, seen, a) ==
    IF <<a.ip, a.logical_address>> \notin seen
    THEN [discovered |-> Append(discovered, ECUInfo(a.ip, a)),
          seen |-> seen \cup {<<a.ip, a.logical_address>>}]
    ELSE [discovered |->
              [i \in 1..Len(discovered) |->
                  IF <<discovered[i].ip, discovered[i].logical_address>>
                       = <<a.ip, a.logical_address>>
                  THEN ECUInfo(a.ip, a) ELSE discovered[i]],
          seen |-> seen]

\* `if (ip, logical_address) not in seen_ecus: append, add`
Collect(discovered, seen, a) ==
    IF <<a.ip, a.logical_address>> \notin seen
    THEN [discovered |-> Append(discovered, ECUInfo(a.ip, a)),
          seen |-> seen \cup {<<a.ip, a.logical_address>>}]
    ELSE [discovered |-> discovered, seen |-> seen]

\* timeout - (time.time() - start_time), the clock reading t
Remaining(t) == disc.timeout - (t - disc.start)
\* the slice as a mutant would write it: the whole remaining time
SliceWholeRemaining(t) == Remaining(t)
\* min(remaining_timeout, 1.0)
Slice(t) == IF Remaining(t) < SliceTicks THEN Remaining(t) ELSE SliceTicks

\* the run returns discovered_ecus
ReturnDiscovered ==
    /\ disc' = [disc EXCEPT !.pc = "done"]
    /\ ret' = [Returned(0) EXCEPT !.data = disc.discovered]

\* the run ends with DiscoveryError
RaiseDiscoveryError ==
    /\ disc' = [disc EXCEPT !.pc = "done"]
    /\ ret' = Raised("DiscoveryError")

\* await_vehicle_announcement(timeout=slice, interface=interface) called at t
Awaited(t) == [net EXCEPT !.waits = @ + 1, !.waitAt = t, !.slice = Slice(t)]

\* action: discover_ecus(interface, timeout) is called: the lines before
\* the loop
discover_ecus(timeout) ==
    /\ disc.pc = "idle"
    /\ disc' = [pc |-> "while", start |-> clock, timeout |-> timeout,
                discovered |-> <<>>, seen |-> {}]
    /\ op' = Op("discover_ecus", "", 0, timeout, <<>>)
    /\ ret' = Returned(0)
    /\ UNCHANGED <<progVars, clock, net>>

\* action: `while time.time() - start_time < timeout`, read d ticks after
\* the previous reading; a false test leaves the loop and returns
loop_test(d) ==
    /\ disc.pc = "while"
    /\ clock' = clock + d
    /\ IF clock' - disc.start < disc.timeout
       THEN disc' = [disc EXCEPT !.pc = "slice"] /\ ret' = ret
       ELSE ReturnDiscovered
    /\ op' = Op("loop_test", "", 0, 0, <<>>)
    /\ UNCHANGED <<progVars, net>>

\* action: remaining_timeout, read d ticks later, is not positive: break
loop_break(d) ==
    /\ disc.pc = "slice"
    /\ Remaining(clock + d) <= 0
    /\ clock' = clock + d
    /\ ReturnDiscovered
    /\ op' = Op("loop_break", "", 0, 0, <<>>)
    /\ UNCHANGED <<progVars, net>>

\* action: the wait returns the announcement a after w ticks
await_announcement(d, w, a) ==
    LET t == clock + d
        c == Collect(disc.discovered, disc.seen, a) IN
    /\ disc.pc = "slice"
    /\ Remaining(t) > 0
    /\ w < Slice(t)
    /\ Len(net.received) < MaxAnnouncements
    /\ clock' = t + w
    /\ net' = [Awaited(t) EXCEPT !.received = Append(@, a)]
    /\ disc' = [disc EXCEPT !.pc = "while", !.discovered = c.discovered, !.seen = c.seen]
    /\ op' = Op("await_announcement", a.ip, 0, a.logical_address, <<>>)
    /\ ret' = ret
    /\ UNCHANGED progVars

\* the handling of TimeoutError as a mutant would write it: without the
\* `except TimeoutError` clause the catch-all turns it into DiscoveryError
await_timeout_fatal(d) ==
    LET t == clock + d IN
    /\ disc.pc = "slice"
    /\ Remaining(t) > 0
    /\ clock' = t + Slice(t)
    /\ net' = Awaited(t)
    /\ RaiseDiscoveryError
    /\ op' = Op("await_timeout", "", 0, 0, <<>>)
    /\ UNCHANGED progVars

\* action: the wait raises TimeoutError when its slice is over: pass
await_timeout(d) ==
    LET t == clock + d IN
    /\ disc.pc = "slice"
    /\ Remaining(t) > 0
    /\ clock' = t + Slice(t)
    /\ net' = Awaited(t)
    /\ disc' = [disc EXCEPT !.pc = "while"]
    /\ op' = Op("await_timeout", "", 0, 0, <<>>)
    /\ ret' = ret
    /\ UNCHANGED progVars

\* the handling of other faults as a mutant would write it: "log other
\* errors but continue discovery"
await_fault_continuing(d, w) ==
    LET t == clock + d IN
    /\ disc.pc = "slice"
    /\ Remaining(t) > 0
    /\ w < Slice(t)
    /\ clock' = t + w + 1
    /\ net' = Awaited(t)
    /\ disc' = [disc EXCEPT !.pc = "while"]
    /\ op' = Op("await_fault", "", 0, 0, <<>>)
    /\ ret' = ret
    /\ UNCHANGED progVars

\* action: the wait raises another exception after w ticks: it is raised
\* as DiscoveryError, which the outer handler wraps in DiscoveryError again
await_fault(d, w) ==
    LET t == clock + d IN
    /\ disc.pc = "slice"
    /\ Remaining(t) > 0
    /\ w < Slice(t)
    /\ clock' = t + w
    /\ net' = Awaited(t)
    /\ RaiseDiscoveryError
    /\ op' = Op("await_fault", "", 0, 0, <<>>)
    /\ UNCHANGED progVars

\* what DoIPClient.get_entity(ip, timeout, protocol_version) does: returns
\* the replying address and its announcement, or raises
ProbeOutcomes ==
    {[kind |-> "reply", a |-> a] : a \in Announcements}
        \cup {[kind |-> k, a |-> <<>>] : k \in {"TimeoutError", "OSError"}}

\* get_entity as a mutant would write it: the descriptor carries the ip
\* that was asked, not the ip that replied
GetEntityOfAskedIp(ip, outcome) ==
    IF outcome.kind = "reply"
    THEN [Returned(0) EXCEPT !.data = <<ECUInfo(ip, outcome.a)>>]
    ELSE IF outcome.kind = "TimeoutError"
    THEN [Returned(0) EXCEPT !.kind = "None"]
    ELSE Raised("DiscoveryError")

\* the body of get_entity on the outcome of DoIPClient.get_entity
GetEntity(ip, outcome) ==
    IF outcome.kind = "reply"
    THEN [Returned(0) EXCEPT !.data = <<ECUInfo(outcome.a.ip, outcome.a)>>]
    ELSE IF outcome.kind = "TimeoutError"
    THEN [Returned(0) EXCEPT !.kind = "None"]
    ELSE Raised("DiscoveryError")

\* the hosts get_entity is asked about
ProbedIps == {"10.0.0.5", "10.0.0.9"}

\* action: get_entity(ip, timeout)
get_entity(ip, outcome) ==
    /\ disc.pc = "idle"
    /\ op' = [Op("get_entity", ip, 0, 0, <<outcome.a>>) EXCEPT !.fault = outcome.kind]
    /\ ret' = GetEntity(ip, outcome)
    /\ UNCHANGED <<progVars, discVars>>

InitDisc ==
    /\ ecus = EmptyMap
    /\ connections = EmptyMap
    /\ clients = EmptyMap
    /\ doipRef = 0
    /\ connected = FALSE
    /\ doips = <<>>
    /\ conns = <<>>
    /\ udsClients = <<>>
    /\ op = Op("init", "", 0, 0, <<>>)
    /\ ret = Returned(0)
    /\ clock \in StartClocks
    /\ disc = NoRun
    /\ net = NoCalls
    /\ Quiet

\* the steps of a discovery run
DiscoverRun ==
    \/ \E d \in DelayTicks : loop_test(d)
    \/ \E d \in DelayTicks : loop_break(d)
    \/ \E d \in DelayTicks, w \in 0..(SliceTicks - 1), a \in Announcements :
            await_announcement(d, w, a)
    \/ \E d \in DelayTicks : await_timeout(d)
    \/ \E d \in DelayTicks, w \in 0..(SliceTicks - 1) : await_fault(d, w)

NextDisc ==
    \/ \E t \in Timeouts : discover_ecus(t)
    \/ DiscoverRun
    \/ \E ip \in ProbedIps, o \in ProbeOutcomes : get_entity(ip, o)

SpecDisc == InitDisc /\ [][NextDisc]_vars

\* every wait returns and the caller's thread keeps running
SpecDiscFair == SpecDisc /\ WF_vars(DiscoverRun)


\* ------------------------------------------------------------ DoIPUDSClient
\* the most close() calls followed on one single-endpoint client
MaxCloses == 2
\* ecu_address arguments of DoIPUDSClient(...)
ClientAddrs == {224, 225}

\* DoIPUDSClient.__init__ as a mutant would write it: the connection is
\* opened before the transport is connected
DoIPUDSClientOpenFirst(ecu_address, ok) ==
    LET ds == New(doips, DoIPConnect(DoIPClient(ecu_address), ok))
        cs == New(conns, ConnOpened(DoIPUDSConnection(ds, Len(ds), <<ecu_address>>)))
        us == New(udsClients, [conn |-> Len(cs)])
    IN [doips |-> ds, conns |-> cs, udsClients |-> us,
        calls |-> <<"connection.open", "doip.connect">>,
        client |-> [doip |-> Len(ds), connection |-> Len(cs), uds |-> Len(us)],
        exc |-> IF ok THEN "ok" ELSE "ConnectionError"]

\* DoIPUDSClient.__init__: builds the transport, the connection on it and
\* the UDS client, then connect() and, when that returned, open(); an
\* exception of either is raised as ConnectionError. `calls` lists the calls
\* made in the try block.
DoIPUDSClient(ecu_address, ok) ==
    LET ds == New(doips, DoIPConnect(DoIPClient(ecu_address), ok))
        closed == DoIPUDSConnection(ds, Len(ds), <<ecu_address>>)
        cs == New(conns, IF ok THEN ConnOpened(closed) ELSE closed)
        us == New(udsClients, [conn |-> Len(cs)])
    IN [doips |-> ds, conns |-> cs, udsClients |-> us,
        calls |-> IF ok THEN <<"doip.connect", "connection.open">> ELSE <<"doip.connect">>,
        client |-> [doip |-> Len(ds), connection |-> Len(cs), uds |-> Len(us)],
        exc |-> IF ok THEN "ok" ELSE "ConnectionError"]

\* action: client = DoIPUDSClient(ecu_ip, ecu_address); the object exists
\* for the caller only when __init__ returned. op.id is the connection
\* __init__ built.
client_new(ecu_address, ok) ==
    LET r == DoIPUDSClient(ecu_address, ok) IN
    /\ Len(conns) < MaxStandalone
    /\ doips' = r.doips
    /\ conns' = r.conns
    /\ udsClients' = r.udsClients
    /\ doipUdsClients' = IF r.exc = "ok" THEN New(doipUdsClients, r.client)
                         ELSE doipUdsClients
    /\ op' = [Op("client_new", "", r.client.connection, ecu_address, r.calls)
                EXCEPT !.fault = IF ok THEN "ok" ELSE "connect"]
    /\ ret' = IF r.exc = "ok" THEN Returned(Len(doipUdsClients) + 1) ELSE Raised(r.exc)
    /\ UNCHANGED <<managerVars, discVars, threads>>

\* the body of DoIPUDSClient.close(): connection.close(), then
\* doip.disconnect(), in one try block; cfail and dok say whether the former
\* raises and the latter returns
ClientClose(u, cfail, dok) ==
    LET c == doipUdsClients[u][1].connection
        d == doipUdsClients[u][1].doip
    IN IF cfail
       THEN [conns |-> conns, doips |-> doips,
             calls |-> <<"connection.close">>, exc |-> "ConnectionError"]
       ELSE [conns |-> Put(conns, c, ConnClosed(conns[c][1])),
             doips |-> Put(doips, d, DoIPDisconnect(doips[d][1], dok)),
             calls |-> <<"connection.close", "doip.disconnect">>,
             exc |-> IF dok THEN "ok" ELSE "ConnectionError"]

\* action: client.close()
client_close(u, cfail, dok) ==
    LET r == ClientClose(u, cfail, dok) IN
    /\ doips[doipUdsClients[u][1].doip][1].disconnects < MaxCloses
    /\ conns' = r.conns
    /\ doips' = r.doips
    /\ op' = [Op("client_close", "", u, Flag(dok), r.calls)
                EXCEPT !.fault = IF cfail THEN "close" ELSE IF dok THEN "ok" ELSE "disconnect"]
    /\ ret' = IF r.exc = "ok" THEN Returned(0) ELSE Raised(r.exc)
    /\ UNCHANGED <<managerVars, udsClients, discVars, threads, doipUdsClients>>

\* action: leaving `with client:`: __exit__ calls close() and returns None,
\* so an exception of the block goes on unless close() raises its own
client_exit(u, bodyExc, cfail, dok) ==
    LET r == ClientClose(u, cfail, dok) IN
    /\ doips[doipUdsClients[u][1].doip][1].disconnects < MaxCloses
    /\ conns' = r.conns
    /\ doips' = r.doips
    /\ op' = [Op("client_exit", bodyExc, u, Flag(dok), r.calls)
                EXCEPT !.fault = IF cfail THEN "close" ELSE IF dok THEN "ok" ELSE "disconnect"]
    /\ ret' = IF r.exc # "ok" THEN Raised(r.exc)
              ELSE IF bodyExc # "ok" THEN Raised(bodyExc) ELSE Returned(0)
    /\ UNCHANGED <<managerVars, udsClients, discVars, threads, doipUdsClients>>

\* before any single-endpoint client is built
InitClient ==
    /\ ecus = EmptyMap
    /\ connections = EmptyMap
    /\ clients = EmptyMap
    /\ doipRef = 0
    /\ connected = FALSE
    /\ doips = <<>>
    /\ conns = <<>>
    /\ udsClients = <<>>
    /\ op = Op("init", "", 0, 0, <<>>)
    /\ ret = Returned(0)
    /\ DiscIdle
    /\ Quiet

NextClient ==
    \/ \E a \in ClientAddrs, ok \in BOOLEAN : client_new(a, ok)
    \/ \E u \in Live(doipUdsClients), cfail \in BOOLEAN, dok \in BOOLEAN :
            client_close(u, cfail, dok)
    \/ \E u \in Live(doipUdsClients), x \in {"ok", "ValueError"},
          cfail \in BOOLEAN, dok \in BOOLEAN : client_exit(u, x, cfail, dok)

SpecClient == InitClient /\ [][NextClient]_vars


\* ================================================================== claims
ValidAddress(a) == a \in 0..65535
SessionRequest(o) == o.kind \in {"ecu", "switch_to"}
ConnectRequest(o) == o.kind \in {"enter", "ecu", "switch_to"}
\* whether the call o, made in the current state, reaches DoIPClient.connect()
WillConnect(o) ==
    \/ o.kind = "enter" /\ ~connected
    \/ SessionRequest(o) /\ ReachesConnect(o.name)
\* the last send the transport of connection c recorded
LastSent(heap, d) == heap[d][1].sent

\* C1: a send is tagged with the connection's current target; assigning a
\* valid 16-bit address makes it the current target; nothing but an
\* assignment to that connection's target_address changes it.  So each send
\* is routed to the target most recently set before it.
C1_SendRoutedToLastSetTarget ==
    [][ /\ op'.kind = "specific_send" =>
            LastSent(doips', conns[op'.id][1].doip) =
                <<[target |-> conns[op'.id][1].target, payload |-> op'.payload]>>
        /\ (op'.kind \in {"set_target", "client_set_target"} /\ ValidAddress(op'.arg)) =>
            conns'[op'.id][1].target = op'.arg
        /\ \A c \in Live(conns) :
            (op'.kind \notin {"set_target", "client_set_target"} \/ op'.id # c) =>
                conns'[c][1].target = conns[c][1].target
      ]_vars

\* a send that went to 0xFFFF, a target only an assignment can have produced
C1_Witness ==
    /\ op.kind = "specific_send"
    /\ conns[op.id][1].target = 65535
    /\ LastSent(doips, 1) = <<[target |-> 65535, payload |-> <<16, 1>>]>>

\* C2: a send through the session cached for a name is routed to the address
\* registered for that name, and changes the target of no other connection.
C2_SessionsRouteToOwnAddress ==
    [][ op'.kind = "specific_send" =>
            /\ \A n \in DOMAIN connections :
                   connections[n] = op'.id =>
                       LastSent(doips', conns[op'.id][1].doip)[1].target = ecus[n]
            /\ \A c \in Live(conns) : conns'[c] = conns[c]
      ]_vars

\* C3: a session request for a name that has a cached client returns that
\* client and constructs nothing; the first successful request constructs one
\* connection and one client and caches them; only remove_ecu(name) and
\* close() change what is cached for a name.
C3_SameCachedSession ==
    [][ /\ (SessionRequest(op') /\ op'.name \in DOMAIN clients) =>
            /\ ret'.val = clients[op'.name]
            /\ clients' = clients /\ connections' = connections
            /\ conns' = conns /\ udsClients' = udsClients
        /\ (SessionRequest(op') /\ op'.name \notin DOMAIN clients /\ ret'.val # 0) =>
            /\ Len(conns') = Len(conns) + 1
            /\ Len(udsClients') = Len(udsClients) + 1
            /\ clients'[op'.name] = ret'.val /\ ret'.val = Len(udsClients')
            /\ connections'[op'.name] = Len(conns')
            /\ udsClients'[ret'.val][1].conn = Len(conns')
        /\ \A n \in DOMAIN clients :
            (op'.kind # "close" /\ ~(op'.kind = "remove_ecu" /\ op'.name = n)) =>
                /\ n \in DOMAIN clients' /\ clients'[n] = clients[n]
                /\ n \in DOMAIN connections' /\ connections'[n] = connections[n]
      ]_vars

\* engine's session, created first, is returned again after another session
\* was created
C3_Witness ==
    /\ op.kind = "switch_to" /\ op.name = "engine"
    /\ ret.kind = "ok" /\ ret.val = 1
    /\ "engine" \in DOMAIN clients /\ clients["engine"] = 1
    /\ Len(udsClients) = 2

\* C4: a session request for a name that is not registered raises
\* ECUNotFoundError and hands out no session.
C4_UnregisteredNameNotFound ==
    [][ (SessionRequest(op') /\ op'.name \notin DOMAIN ecus) =>
            ret' = Raised("ECUNotFoundError")
      ]_vars

\* ECUNotFoundError after the one session ever created was evicted by
\* remove_ecu (close() would have cleared the connected flag)
C4_Witness ==
    /\ SessionRequest(op) /\ ret.kind = "ECUNotFoundError"
    /\ ecus = EmptyMap
    /\ Len(conns) = 1 /\ Live(conns) = {} /\ connected

\* C5: every cached name is registered; remove_ecu(name) leaves name neither
\* registered nor cached and touches no other name; on an absent name it
\* changes nothing.
C5_CacheWithinRegistry ==
    /\ [](DOMAIN connections \subseteq DOMAIN ecus /\ DOMAIN clients \subseteq DOMAIN ecus)
    /\ [][ op'.kind = "remove_ecu" =>
            /\ op'.name \notin DOMAIN ecus'
            /\ op'.name \notin DOMAIN connections'
            /\ op'.name \notin DOMAIN clients'
            /\ \A n \in Names \ {op'.name} :
                /\ (n \in DOMAIN ecus) = (n \in DOMAIN ecus')
                /\ (n \in DOMAIN clients) = (n \in DOMAIN clients')
                /\ (n \in DOMAIN connections) = (n \in DOMAIN connections')
            /\ op'.name \notin DOMAIN ecus =>
                UNCHANGED <<managerVars, doips, conns, udsClients>>
         ]_vars

\* remove_ecu has just evicted the only session there was
C5_Witness ==
    /\ op.kind = "remove_ecu"
    /\ Len(conns) = 1 /\ Live(conns) = {} /\ connected
    /\ connections = EmptyMap /\ clients = EmptyMap

\* C6 as claimed: at most one transport is ever created by one manager.
C6_AtMostOneTransportEver == Len(doips) <= 1

\* C6 as amended: construction creates no transport; a transport is created
\* by, and only by, __enter__ or a session request that finds the connected
\* flag false (the first one, a retry after a failed connect, a request
\* after close()), one per such call, and it replaces the one held in _doip.
C6_TransportCreatedWhenNotConnected ==
    /\ (Len(doips) = 0 /\ doipRef = 0)
    /\ [][ /\ Len(doips') # Len(doips) =>
               /\ ConnectRequest(op') /\ ~connected
               /\ Len(doips') = Len(doips) + 1
               /\ doipRef' = Len(doips')
           /\ (WillConnect(op')) => Len(doips') = Len(doips) + 1
           /\ doipRef' # doipRef => Len(doips') # Len(doips)
         ]_vars

\* a second transport, and it is the connected one
C6_Witness == Len(doips) = 2 /\ doipRef = 2 /\ connected

\* C7: while the connected flag is true, __enter__ and session requests
\* create no transport and call connect() on none; every transport has had
\* connect() called exactly once.
C7_EnsureConnectedIdempotent ==
    [][ /\ (connected /\ ConnectRequest(op')) =>
            /\ doips' = doips /\ doipRef' = doipRef /\ connected'
        /\ \A d \in Live(doips') : doips'[d][1].connects = 1
      ]_vars

\* __enter__ on a manager that holds a cached session, so was connected
C7_Witness ==
    /\ op.kind = "enter" /\ ret.kind = "ok"
    /\ Live(conns) # {} /\ connected

\* C8: a connect that fails gives ConnectionError, leaves the manager not
\* connected and caches nothing; ConnectionError has no other cause; a call
\* that finds the manager not connected (also after a failure) and whose
\* connect succeeds leaves it connected, a session request then returning a
\* cached session.
C8_FailedConnectLeavesRetryable ==
    [][ /\ (WillConnect(op') /\ op'.arg = 0) =>
            /\ ret' = Raised("ConnectionError")
            /\ ~connected'
            /\ clients' = clients /\ connections' = connections
            /\ conns' = conns /\ udsClients' = udsClients
            /\ SessionRequest(op') => op'.name \notin DOMAIN clients'
        /\ (ConnectRequest(op') /\ ret'.kind = "ConnectionError") =>
            WillConnect(op') /\ op'.arg = 0
        /\ (WillConnect(op') /\ op'.arg = 1) =>
            /\ connected'
            /\ doips'[doipRef'][1].live
            /\ SessionRequest(op') => clients'[op'.name] = ret'.val
      ]_vars

\* a session request has just failed to connect
C8_Witness ==
    /\ SessionRequest(op) /\ ret.kind = "ConnectionError"
    /\ ~connected /\ clients = EmptyMap
    /\ doipRef # 0 /\ ~doips[doipRef][1].live

\* C9: the first session request on a manager that never connected, its
\* connect succeeding, leaves the manager connected and hands out the cached
\* client of an open connection on the live transport, targeted at the
\* address registered for the name.
C9_FirstRequestConnectsAndTargets ==
    [][ (SessionRequest(op') /\ op'.name \in DOMAIN ecus /\ Len(doips) = 0 /\ op'.arg = 1) =>
            /\ connected'
            /\ ret'.val = clients'[op'.name]
            /\ udsClients'[ret'.val][1].conn = connections'[op'.name]
            /\ LET c == conns'[connections'[op'.name]][1] IN
                /\ c.opened
                /\ c.doip = doipRef' /\ doips'[doipRef'][1].live
                /\ c.target = ecus[op'.name]
      ]_vars

\* C10: assigning an address outside [0, 0xFFFF] raises AddressSwitchError
\* and leaves the target as it was.
C10_OutOfRangeRejected ==
    [][ (op'.kind \in {"set_target", "client_set_target"} /\ ~ValidAddress(op'.arg)) =>
            /\ ret'.kind = "AddressSwitchError"
            /\ conns'[op'.id][1].target = conns[op'.id][1].target
      ]_vars

\* C11: close() raises nothing and leaves both caches empty and the
\* connected flag false, whatever the state it is called in and whichever
\* cached connections or the transport fail to close; it can always be
\* called.
C11_CloseTotalAndIdempotent ==
    /\ [](ENABLED (\E dok \in BOOLEAN : close(dok, {}, {})))
    /\ [][ op'.kind = "close" =>
            /\ ret' = Returned(0)
            /\ connections' = EmptyMap /\ clients' = EmptyMap
            /\ ~connected'
            /\ ecus' = ecus /\ doipRef' = doipRef
         ]_vars

\* close() has just torn down a connected manager with both sessions cached
C11_Witness ==
    /\ op.kind = "close" /\ ret.kind = "ok"
    /\ Len(conns) = 2 /\ Live(conns) = {}
    /\ connections = EmptyMap /\ clients = EmptyMap /\ ~connected
    /\ doips[doipRef][1].disconnects = 1

\* C12: when disconnect() raises inside close(), close() still returns
\* normally with the connected flag false and both caches empty.
C12_DisconnectFaultTolerated ==
    [][ (op'.kind = "close" /\ op'.arg = 0) =>
            /\ connected /\ doipRef # 0
            /\ doips'[doipRef][1].disconnects = doips[doipRef][1].disconnects + 1
            /\ ret' = Returned(0)
            /\ ~connected'
            /\ connections' = EmptyMap /\ clients' = EmptyMap
      ]_vars

\* disconnect() raised while a session was cached; the transport is still up
C12_Witness ==
    /\ op.kind = "close" /\ op.arg = 0 /\ ret.kind = "ok"
    /\ ~connected /\ clients = EmptyMap
    /\ Len(conns) >= 1
    /\ doips[doipRef][1].live /\ doips[doipRef][1].disconnects = 1

\* C13: in close(), every cached connection whose close() does not raise is
\* closed, whichever others raise; disconnect() is attempted all the same;
\* close() returns normally.
C13_ConnectionFaultsSkipped ==
    [][ op'.kind = "close" =>
            /\ ret' = Returned(0)
            /\ \A c \in CachedConns(Names) \ op'.fails :
                   c \in Live(conns') => ~conns'[c][1].opened
            /\ \A c \in Stale : conns'[c] = conns[c]
            /\ connected =>
                   doips'[doipRef][1].disconnects = doips[doipRef][1].disconnects + 1
            /\ connections' = EmptyMap /\ clients' = EmptyMap
      ]_vars

\* one cached connection failed to close, the other, kept by the caller,
\* was closed, and the transport was disconnected
C13_Witness ==
    /\ op.kind = "close" /\ op.fails # {}
    /\ \E c \in Live(conns) : c \notin op.fails /\ ~conns[c][1].opened
    /\ doips[doipRef][1].disconnects = 1 /\ ~doips[doipRef][1].live

\* C14: close() calls disconnect() once when the connected flag is true and
\* not at all otherwise; the flag is true only on a transport whose connect
\* succeeded and that was not disconnected yet, so no transport is
\* disconnected more often than it was connected.
C14_DisconnectOncePerConnect ==
    /\ [](/\ connected =>
              /\ doipRef # 0 /\ doips[doipRef][1].live
              /\ doips[doipRef][1].disconnects = 0
          /\ \A d \in Live(doips) :
              /\ doips[d][1].disconnects <= doips[d][1].connects
              /\ doips[d][1].connects = 1)
    /\ [][ /\ op'.kind = "close" =>
               IF connected
               THEN /\ doips'[doipRef][1].disconnects = 1
                    /\ \A d \in Live(doips) \ {doipRef} : doips'[d] = doips[d]
               ELSE doips' = doips
           /\ op'.kind # "close" =>
               \A d \in Live(doips) \cap Live(doips') :
                   doips'[d][1].disconnects = doips[d][1].disconnects
         ]_vars

\* close() on a manager whose only connect attempt failed: no disconnect
C14_Witness ==
    /\ op.kind = "close" /\ ~connected
    /\ Len(doips) = 1 /\ doipRef = 1
    /\ ~doips[1][1].live /\ doips[1][1].disconnects = 0

\* C15: a fault raised inside a `with manager.ecu(name)` block leaves the
\* block as a fault of the same kind whose message names the endpoint.
C15_FaultKindPreserved ==
    [][ (op'.kind = "ecu" /\ op'.fault # "ok") =>
            /\ ret'.kind = op'.fault
            /\ ret'.ctx = op'.name
      ]_vars

\* C16: leaving a `with manager.ecu(name)` block, normally or by a fault,
\* leaves the manager as the session request left it: the session is still
\* cached, its connection still open, the transport still connected, and
\* nothing else changed; the next request for the name returns the same
\* session.
C16_ScopedExitKeepsSession ==
    [][ (op'.kind = "ecu" /\ (ret'.kind = "ok" \/ op'.fault # "ok")) =>
            /\ op'.name \in DOMAIN clients' /\ clients'[op'.name] = ret'.val
            /\ conns'[connections'[op'.name]][1].opened
            /\ connected' /\ doips'[doipRef'][1].live
            /\ doips'[doipRef'][1].disconnects = 0
            /\ LET r == get_client(op'.name, op'.arg = 1) IN
                   /\ <<ecus', connections', clients', doipRef', connected'>>
                        = <<r.ecus, r.connections, r.clients, r.doipRef, r.connected>>
                   /\ <<doips', conns', udsClients'>> = <<r.doips, r.conns, r.udsClients>>
            /\ op'.name \in DOMAIN clients =>
                   UNCHANGED <<managerVars, doips, conns, udsClients>>
            /\ (get_client(op.name, TRUE).ret = Returned(ret.val))'
      ]_vars

\* a block on a cached session has just been left by a fault
C16_Witness ==
    /\ op.kind = "ecu" /\ op.fault = "ValueError" /\ ret.kind = "ValueError"
    /\ clients[op.name] = ret.val
    /\ conns[connections[op.name]][1].opened
    /\ connected
    /\ Cardinality(DOMAIN clients) = 2

\* C17: open() and close() of a connection leave the shared transport as it
\* is (no connect, no disconnect) and leave every other connection's open
\* state and target as they are; a send through any connection is forwarded
\* with that connection's target whatever the open state of the others.
C17_OpenCloseLeaveTransport ==
    /\ [](\A d \in Live(doips) :
              doips[d][1].live /\ doips[d][1].connects = 1 /\ doips[d][1].disconnects = 0)
    /\ [][ /\ op'.kind \in {"connection_open", "connection_close"} =>
               /\ doips' = doips
               /\ \A c \in Live(conns) \ {op'.id} : conns'[c] = conns[c]
               /\ conns'[op'.id][1].target = conns[op'.id][1].target
               /\ conns'[op'.id][1].doip = conns[op'.id][1].doip
           /\ op'.kind = "specific_send" =>
               /\ ret' = Returned(0)
               /\ LastSent(doips', conns[op'.id][1].doip)
                    = <<[target |-> conns[op'.id][1].target, payload |-> op'.payload]>>
         ]_vars

\* one connection was just closed while another one, with a different
\* target, is open on the same connected transport
C17_Witness ==
    /\ op.kind = "connection_close" /\ op.id = 1
    /\ Live(conns) = {1, 2}
    /\ ~is_open(1) /\ is_open(2)
    /\ conns[1][1].doip = conns[2][1].doip
    /\ conns[1][1].target # conns[2][1].target
    /\ doips[conns[1][1].doip][1].live

\* C18: a new connection is not open; after open() is_open() is true and
\* after close() it is false, whatever it was before; neither raises; a
\* target change leaves is_open() of every connection as it was.
C18_OpenCloseIdempotent ==
    /\ [](op.kind = "new_connection" => ~is_open(op.id))
    /\ [][ /\ op'.kind = "connection_open" =>
               /\ conns'[op'.id][1].opened /\ ret' = Returned(0)
               /\ is_open(op'.id) => conns' = conns
           /\ op'.kind = "connection_close" =>
               /\ ~conns'[op'.id][1].opened /\ ret' = Returned(0)
               /\ ~is_open(op'.id) => conns' = conns
           /\ op'.kind \in {"set_target", "client_set_target"} =>
               \A c \in Live(conns) : is_open(c)' = is_open(c)
         ]_vars

\* a connection whose target was changed while open has just been closed
C18_Witness ==
    /\ op.kind = "connection_close" /\ ~is_open(op.id)
    /\ conns[op.id][1].target = 65535
    /\ \E c \in Live(conns) : is_open(c)

\* C19: a send through a connection that is not open does not reach the
\* transport.
C19_ClosedConnectionDoesNotSend ==
    [][ (op'.kind = "specific_send" /\ ~is_open(op'.id)) =>
            /\ doips' = doips
            /\ ret'.kind # "ok"
      ]_vars

\* C20: a send through a session whose transport the manager's close() has
\* disconnected is not forwarded to that transport and fails.
C20_NoSendOnDisconnectedTransport ==
    [][ (op'.kind = "specific_send" /\ ~doips[conns[op'.id][1].doip][1].live) =>
            /\ doips' = doips
            /\ ret'.kind # "ok"
      ]_vars

\* C21: specific_wait_frame returns the reply's bytes unchanged when the
\* transport delivers a reply and returns None when the transport's receive
\* times out (by returning nothing or by raising its timeout fault); a
\* timeout never reaches the caller as a fault.
C21_ReceiveTimeoutIsNoData ==
    [][ op'.kind = "specific_wait_frame" =>
            /\ op'.fault = "reply" => ret'.kind = "ok" /\ ret'.data = op'.payload
            /\ op'.fault \in {"None", "TimeoutError"} => ret'.kind = "None"
      ]_vars

\* C22: a fault of the transport's receive other than a timeout reaches the
\* caller as that fault, never as None or a reply, and leaves the target and
\* the open state of every connection as they were.
C22_ReceiveFaultPropagated ==
    [][ op'.kind = "specific_wait_frame" =>
            /\ op'.fault \notin {"reply", "None", "TimeoutError"} =>
                   ret'.kind = op'.fault /\ ret'.data = <<>>
            /\ conns' = conns /\ doips' = doips
      ]_vars

\* the transport's receive raised OSError on an open connection whose
\* target had been changed
C22_Witness ==
    /\ op.kind = "specific_wait_frame" /\ op.fault = "OSError"
    /\ ret.kind = "OSError"
    /\ is_open(op.id) /\ conns[op.id][1].target = 65535

\* C23: a connection constructed with an explicit target in 0..65535 has
\* that target (0 included); one constructed without has the transport's
\* default address; a new connection is closed.
C23_InitialTarget ==
    op.kind = "new_connection" =>
        /\ ~is_open(op.id)
        /\ conns[op.id][1].target =
              IF op.payload # <<>> THEN op.payload[1]
              ELSE doips[conns[op.id][1].doip][1].ecu_logical_address

\* the (ip, logical_address) pair of an announcement or a descriptor
Pair(x) == <<x.ip, x.logical_address>>
\* the places in the received sequence where a pair shows up first
FirstSeen ==
    {k \in 1..Len(net.received) :
        \A j \in 1..(k - 1) : Pair(net.received[j]) # Pair(net.received[k])}
\* the i-th of them
NthFirstSeen(i) == CHOOSE k \in FirstSeen : Cardinality({j \in FirstSeen : j < k}) = i - 1
\* the run has just returned a list
RunReturned == disc.pc = "done" /\ ret.kind = "ok"

\* C24: the descriptors collected by a discovery run never hold one
\* (ip, logical_address) pair twice and hold every pair that was received,
\* also when announcements of one pair differ in their other fields; the
\* list returned is that collection.
C24_NoDuplicateEndpoints ==
    /\ \A i, j \in 1..Len(disc.discovered) :
           Pair(disc.discovered[i]) = Pair(disc.discovered[j]) => i = j
    /\ {Pair(disc.discovered[i]) : i \in 1..Len(disc.discovered)}
         = {Pair(net.received[k]) : k \in 1..Len(net.received)}
    /\ RunReturned => ret.data = disc.discovered

\* a run returned one descriptor for a pair announced twice with different
\* entity ids, and one for another pair
C24_Witness ==
    /\ RunReturned
    /\ Len(net.received) = 3 /\ Len(ret.data) = 2
    /\ \E i, j \in 1..3 :
           /\ i # j /\ Pair(net.received[i]) = Pair(net.received[j])
           /\ net.received[i].eid # net.received[j].eid

\* C25: the descriptors are in first-seen order and the first announcement
\* of a pair wins: descriptor i carries the fields of the announcement with
\* which the i-th distinct pair arrived first.
C25_FirstSeenOrder ==
    /\ Len(disc.discovered) = Cardinality(FirstSeen)
    /\ \A i \in 1..Len(disc.discovered) :
           LET a == net.received[NthFirstSeen(i)] IN
           disc.discovered[i] =
               [ip |-> a.ip, logical_address |-> a.logical_address, eid |-> a.eid,
                gid |-> a.gid, further_action |-> a.further_action_code]
    /\ RunReturned => ret.data = disc.discovered

\* a run returned two descriptors after the first pair was announced again,
\* last and with another entity id
C25_Witness ==
    /\ RunReturned
    /\ Len(net.received) = 3 /\ Len(ret.data) = 2
    /\ Pair(net.received[3]) = Pair(net.received[1])
    /\ net.received[3].eid # net.received[1].eid
    /\ ret.data[1].eid = net.received[1].eid
    /\ Pair(ret.data[2]) = Pair(net.received[2])

\* C27: a discovery run broadcasts the identification request exactly once,
\* before its first wait for an announcement.
C27_BroadcastOnce ==
    (net.waits > 0 \/ disc.pc = "done") => net.broadcasts = 1

\* C28: a wait is started only while the elapsed time is below the timeout,
\* with a slice of at most one second and at most the remaining time; a
\* slice that times out only continues the loop; every run ends.
C28_DiscoverTerminates ==
    /\ [][ /\ net'.waits # net.waits =>
               /\ net'.waits = net.waits + 1
               /\ net'.waitAt - disc.start < disc.timeout
               /\ net'.slice \in 1..SliceTicks
               /\ net'.slice <= disc.timeout - (net'.waitAt - disc.start)
           /\ op'.kind = "await_timeout" =>
               /\ disc' = [disc EXCEPT !.pc = "while"]
               /\ ret' = ret
               /\ clock' = net'.waitAt + net'.slice
         ]_vars
    /\ (disc.pc \in {"while", "slice"}) ~> (disc.pc = "done")

\* a run whose every slice timed out returned the empty list once the
\* timeout had passed
C28_Witness ==
    /\ RunReturned /\ ret.data = <<>>
    /\ disc.timeout = 3 /\ net.waits >= 2 /\ net.received = <<>>
    /\ clock - disc.start >= disc.timeout

\* C29: a fault other than a timeout raised by a wait ends the run with
\* DiscoveryError: nothing is returned, whatever was collected, and a run
\* that has ended makes no further call.
C29_WaitFaultIsFatal ==
    [][ /\ op'.kind = "await_fault" =>
               /\ disc'.pc = "done"
               /\ ret'.kind = "DiscoveryError" /\ ret'.data = <<>>
        /\ disc.pc = "done" => (net' = net /\ disc' = disc)
      ]_vars

\* a wait failed after two descriptors had been collected
C29_Witness ==
    /\ op.kind = "await_fault" /\ disc.pc = "done"
    /\ ret.kind = "DiscoveryError"
    /\ Len(disc.discovered) = 2

\* C30: get_entity returns a descriptor with the replying ip and the
\* reply's logical address when the probe is answered, None when the probe
\* times out, and raises DiscoveryError on any other fault.
C30_ProbeOutcomes ==
    [][ op'.kind = "get_entity" =>
            /\ op'.fault = "reply" =>
                   /\ ret'.kind = "ok"
                   /\ LET a == op'.payload[1] IN
                      ret'.data = <<[ip |-> a.ip, logical_address |-> a.logical_address,
                                     eid |-> a.eid, gid |-> a.gid,
                                     further_action |-> a.further_action_code]>>
            /\ op'.fault = "TimeoutError" => ret'.kind = "None" /\ ret'.data = <<>>
            /\ op'.fault \notin {"reply", "TimeoutError"} =>
                   ret'.kind = "DiscoveryError" /\ ret'.data = <<>>
            /\ UNCHANGED <<disc, net>>
      ]_vars

\* a probe of one host was answered from another address
C30_Witness ==
    /\ op.kind = "get_entity" /\ op.fault = "reply"
    /\ ret.kind = "ok"
    /\ ret.data[1].ip # op.name
    /\ ret.data[1].logical_address = op.payload[1].logical_address

\* C31: DoIPUDSClient(...) connects the transport and then opens its
\* connection; when the connect fails the constructor raises
\* ConnectionError, the caller gets no client object and the connection it
\* built is never opened.
C31_ConstructionConnectsThenOpens ==
    [][ op'.kind = "client_new" =>
            /\ doips'[Len(doips')][1].connects = 1
            /\ IF op'.fault = "ok"
               THEN /\ ret'.kind = "ok"
                    /\ op'.payload = <<"doip.connect", "connection.open">>
                    /\ doipUdsClients'[ret'.val][1].connection = op'.id
                    /\ conns'[op'.id][1].opened
                    /\ doips'[conns'[op'.id][1].doip][1].live
               ELSE /\ ret'.kind = "ConnectionError"
                    /\ doipUdsClients' = doipUdsClients
                    /\ ~conns'[op'.id][1].opened
                    /\ "connection.open" \notin {op'.payload[i] : i \in 1..Len(op'.payload)}
      ]_vars

\* a construction failed after another one had succeeded
C31_Witness ==
    /\ op.kind = "client_new" /\ ret.kind = "ConnectionError"
    /\ Len(doipUdsClients) = 1 /\ Len(conns) = 2
    /\ ~conns[2][1].opened /\ conns[1][1].opened

\* C35: DoIPUDSClient.close(), also when __exit__ calls it, closes the
\* connection once and disconnects the transport once; a fault of either
\* reaches the caller as ConnectionError.
C35_ClientCloseBothOnce ==
    [][ op'.kind \in {"client_close", "client_exit"} =>
            LET u == doipUdsClients[op'.id][1] IN
            /\ op'.payload = <<"connection.close", "doip.disconnect">>
            /\ doips'[u.doip][1].disconnects = doips[u.doip][1].disconnects + 1
            /\ op'.fault # "ok" => ret'.kind = "ConnectionError"
      ]_vars

\* C34: `with manager:` connects the transport on entry, and leaving the
\* block, by completion or by an exception of the block, runs close(): the
\* caches are empty and the manager is not connected afterwards, and the
\* exception of the block is not replaced. __del__ does the same and never
\* raises, also on a manager that never connected.
C34_ScopedTeardown ==
    [][ /\ (op'.kind = "enter" /\ ret'.kind = "ok") =>
                connected' /\ doips'[doipRef'][1].live
        /\ op'.kind \in {"exit", "del"} =>
                /\ connections' = EmptyMap /\ clients' = EmptyMap /\ ~connected'
                /\ (doipRef # 0 /\ connected) =>
                        doips'[doipRef][1].disconnects = doips[doipRef][1].disconnects + 1
                /\ ret'.kind = IF op'.kind = "exit" THEN op'.fault ELSE "ok"
      ]_vars

\* a block that had a session cached was left by an exception
C34_Witness ==
    /\ op.kind = "exit" /\ op.fault = "ValueError" /\ ret.kind = "ValueError"
    /\ Len(conns) >= 1 /\ connections = EmptyMap /\ ~connected
    /\ doipRef # 0 /\ doips[doipRef][1].disconnects >= 1

\* C37: a successful session request for name gives a session whose
\* connection targets the address registered for name at that time.
C37_SessionTargetsRegisteredAddress ==
    [][ (SessionRequest(op') /\ ret'.kind = "ok") =>
            conns'[udsClients'[ret'.val][1].conn][1].target = ecus'[op'.name]
      ]_vars

\* C38: every open connection the manager created is in its cache.
C38_NoOpenConnectionOutsideCache ==
    \A c \in Live(conns) : conns[c][1].opened => c \in CachedConns(Names)

\* C39: while the cache is not empty the manager is connected, every cached
\* connection is open and on the manager's current transport, and the two
\* caches have the same names, the cached client of a name being the one
\* built on the cached connection of that name.
C39_CacheInvariant ==
    /\ DOMAIN connections = DOMAIN clients
    /\ DOMAIN connections # {} => connected /\ doipRef # 0
    /\ \A n \in DOMAIN connections :
            /\ conns[connections[n]][1].opened
            /\ conns[connections[n]][1].doip = doipRef
            /\ udsClients[clients[n]][1].conn = connections[n]

\* both names have a cached session
C39_Witness ==
    /\ DOMAIN connections = Names /\ connected
    /\ connections["engine"] # connections["transmission"]

\* C40: a session request that fails with ECUNotFoundError changes nothing
\* of the manager, creates no transport and attempts no connect; the caller
\* gets ECUNotFoundError as it is.
C40_UnknownNameChangesNothing ==
    [][ (SessionRequest(op') /\ op'.name \notin DOMAIN ecus) =>
            /\ ret'.kind = "ECUNotFoundError"
            /\ UNCHANGED <<managerVars, doips, conns, udsClients>>
      ]_vars

\* a request for an unregistered name on a manager that has another name
\* registered and never connected
C40_Witness ==
    /\ op.kind = "ecu" /\ ret.kind = "ECUNotFoundError"
    /\ ecus # EmptyMap /\ ~connected /\ doips = <<>>

\* C36: every wait of a discovery run is given a slice that is positive, at
\* most one second and at most the time remaining when the wait is started,
\* so a run with a timeout above one second never waits with its whole
\* timeout; a run with a timeout of zero waits for nothing and returns the
\* empty list.
C36_WaitSlices ==
    /\ [][ net'.waits # net.waits =>
               /\ disc.timeout > 0
               /\ net'.slice > 0
               /\ net'.slice <= SliceTicks
               /\ net'.slice <= Remaining(net'.waitAt)
               /\ disc.timeout > SliceTicks => net'.slice < disc.timeout
         ]_vars
    /\ []((disc.pc # "idle" /\ disc.timeout <= 0) => net = NoCalls)
    /\ []((disc.pc = "done" /\ disc.timeout <= 0) => (ret.kind = "ok" /\ ret.data = <<>>))

\* a run with a timeout of 1.5 s is in its second wait, which was given the
\* half second that remained
C36_Witness ==
    /\ disc.timeout = 3 /\ net.waits = 2
    /\ net.waitAt - disc.start = 2 /\ net.slice = 1

\* C32: whatever the interleaving of concurrent session requests for one
\* name, one connection and one client are constructed for it and every
\* caller gets that client.
C32_OneSessionPerName ==
    /\ Len(conns) = Cardinality(DOMAIN connections)
    /\ Len(udsClients) = Cardinality(DOMAIN clients)
    /\ \A t \in Threads : threads[t].result # 0 => threads[t].result = clients[threads[t].name]

\* C33: whatever the interleaving of concurrent first session requests,
\* while no connect() has failed one transport at most is created, connect()
\* is called on it once at most, and every session is on that transport.
C33_OneTransport ==
    (\A d \in 1..Len(doips) : doips[d][1].connects > 0 => doips[d][1].live) =>
        /\ Len(doips) <= 1
        /\ \A d \in 1..Len(doips) : doips[d][1].connects <= 1
        /\ \A c \in Live(conns) : conns[c][1].doip = doipRef /\ doips[doipRef][1].live

====
